---- MODULE Spec2Model ----
(***************************************************************************)
(* Model of xc (src/xc.py): an XMPP console client.  One coroutine,        *)
(* xmpp_client, runs the prompt loop; the aioxmpp roster and presence      *)
(* services run their handlers on the same asyncio loop whenever the       *)
(* prompt loop is suspended in an await.                                   *)
(*                                                                         *)
(* Text is a sequence of symbols.  The symbols "a", ":", " " and "/" are   *)
(* single characters; a command word ("roster"), an address ("x@h") or a   *)
(* subscription ("both") is one symbol that holds none of the separator    *)
(* characters, so str.split and str.startswith act on symbols as they act  *)
(* on characters.                                                          *)
(***************************************************************************)
EXTENDS Naturals, Sequences, FiniteSets

VARIABLES
  pc,              \* where xmpp_client stands
  items,           \* roster.items, in insertion order
  available,       \* peers the presence service holds an available resource of
  next_recipient,  \* the sticky recipient (a display name) or None
  line,            \* document.text of the current iteration, NoLine otherwise
  recipient,       \* local `recipient` while the send is awaited
  jid,             \* local `jid` while /add or /del awaits the roster service
  written,         \* what the latest step wrote to the terminal
  calls,           \* the transport calls the latest step made
  established,     \* the transport holds an established session
  exit_status,     \* the status the process exited with, NoStatus while it runs
  buffer           \* the input typed at the prompt and not yet submitted

vars == <<pc, items, available, next_recipient, line, recipient, jid, written, calls,
          established, exit_status, buffer>>

----------------------------------------------------------------------------
(* Bounds *)

MaxLineLen == 4
MaxArgs == 2

----------------------------------------------------------------------------
(* Python values *)

None == <<"<None>">>
NoLine == <<"<no line>">>
NoStatus == <<"<running>">>

\* v or d
Or(v, d) == IF v = None \/ v = <<>> THEN d ELSE v

\* "%s" % v
Str(v) == IF v = None THEN <<"None">> ELSE v

Min(S) == CHOOSE i \in S : \A j \in S : i <= j

Seqs(S, n) == UNION {[1..k -> S] : k \in 0..n}

\* aioxmpp.JID.fromstr(s): a JID object, never equal to a str
JIDfromstr(s) == <<"JID">> \o s

\* JID.fromstr raises ValueError on the empty string
JIDfromstrRaises(s) == s = <<>>

\* str(jid)
JIDstr(j) == Tail(j)

\* line 44
my_jid == JIDfromstr(<<"me@h">>)

peer_jid == JIDfromstr(<<"x@h">>)

JIDs == {my_jid, peer_jid}

\* the peers whose presence is followed
Peers == {peer_jid}

Names == {<<"a">>, <<"a", "a">>}

Subscriptions == {<<"none">>}

----------------------------------------------------------------------------
(* str.split *)

\* line.rsplit(": ", 1)
SplitLast(s) ==
  LET at == {i \in 1..(Len(s) - 1) : s[i] = ":" /\ s[i + 1] = " "}
      Max(S) == CHOOSE i \in S : \A j \in S : i >= j
  IN IF at = {} THEN <<s>>
     ELSE <<SubSeq(s, 1, Max(at) - 1), SubSeq(s, Max(at) + 2, Len(s))>>

\* line.split(":", 1)
SplitColon(s) ==
  LET at == {i \in 1..Len(s) : s[i] = ":"}
  IN IF at = {} THEN <<s>>
     ELSE <<SubSeq(s, 1, Min(at) - 1), SubSeq(s, Min(at) + 1, Len(s))>>

\* line 159: line.split(": ", 1)
SplitFirst(s) ==
  LET at == {i \in 1..(Len(s) - 1) : s[i] = ":" /\ s[i + 1] = " "}
  IN IF at = {} THEN <<s>>
     ELSE <<SubSeq(s, 1, Min(at) - 1), SubSeq(s, Min(at) + 2, Len(s))>>

\* s.split(" ")
RECURSIVE SplitSpace(_)
SplitSpace(s) ==
  LET at == {i \in 1..Len(s) : s[i] = " "}
  IN IF at = {} THEN <<s>>
     ELSE <<SubSeq(s, 1, Min(at) - 1)>> \o SplitSpace(SubSeq(s, Min(at) + 1, Len(s)))

\* sep.join(parts)
RECURSIVE Join(_, _)
Join(parts, sep) ==
  IF parts = <<>> THEN <<>>
  ELSE IF Len(parts) = 1 THEN parts[1]
  ELSE parts[1] \o sep \o Join(Tail(parts), sep)

\* line.startswith("/")
StartsWithSlash(s) == Len(s) >= 1 /\ s[1] = "/"

----------------------------------------------------------------------------
(* roster.items *)

Item(j, n, s) == [jid |-> j, name |-> n, subscription |-> s]

\* positions of key in roster.items; a str key matches no JID
ItemIndex(its, key) == {i \in DOMAIN its : its[i].jid = key}

\* the roster service stores a pushed item: replaced in place, or appended
Upsert(its, j, n, s) ==
  IF ItemIndex(its, j) = {} THEN Append(its, Item(j, n, s))
  ELSE [i \in DOMAIN its |-> IF its[i].jid = j THEN Item(j, n, s) ELSE its[i]]

\* the roster service drops a removed item
Remove(its, j) ==
  LET Keep(it) == it.jid # j IN SelectSeq(its, Keep)

\* item.name.startswith(r), as the completer matches (line 62)
jid_for_namePrefix(its, r) ==
  LET at == {i \in DOMAIN its :
               Len(its[i].name) >= Len(r) /\ SubSeq(its[i].name, 1, Len(r)) = r}
  IN IF at = {} THEN None ELSE its[Min(at)].jid

\* line 167: the first item, in iteration order, whose name is r
jid_for_name(its, r) ==
  LET at == {i \in DOMAIN its : its[i].name = r}
  IN IF at = {} THEN None ELSE its[Min(at)].jid

\* lines 81-85
name_for_jid(its, j) ==
  IF ItemIndex(its, j) = {} THEN JIDstr(j) ELSE its[Min(ItemIndex(its, j))].name

----------------------------------------------------------------------------
(* Input lines *)

ChatChars == {"a", ":", " "}

\* longer lines, whose message holds the separator again
LongLines == {<<"a", ":", " ", ":", " ">>, <<"a", ":", " ", "a", ":", " ">>}

ChatLines == Seqs(ChatChars, MaxLineLen) \cup LongLines

Commands == {"roster", "name", "add", "del", "quit", "help", "bogus"}

ArgTokens == {<<>>, <<"x@h">>, <<"all">>, <<"a">>}

RECURSIVE SpacedArgs(_)
SpacedArgs(args) ==
  IF args = <<>> THEN <<>> ELSE <<" ">> \o args[1] \o SpacedArgs(Tail(args))

CommandLines ==
  {<<"/">>} \cup
  {<<"/", c>> \o SpacedArgs(args) : c \in Commands, args \in Seqs(ArgTokens, MaxArgs)}

Lines == ChatLines \cup CommandLines

\* what the user may have typed when a notification arrives
PartialInputs == {<<"a">>}

----------------------------------------------------------------------------
(* Terminal output and transport calls *)

Out(kind, args) == [kind |-> kind, args |-> args]

Call(op, to, body) == [op |-> op, to |-> to, body |-> body]

\* the rows without the test jid != my_jid
RosterRowsAll(its) ==
  [i \in DOMAIN its |-> <<its[i].name, JIDstr(its[i].jid), its[i].subscription>>]

\* line 111: the rows of /roster
RosterRows(its) ==
  LET Shown(it) == it.jid # my_jid
      shown == SelectSeq(its, Shown)
  IN [i \in DOMAIN shown |->
        <<shown[i].name, JIDstr(shown[i].jid), shown[i].subscription>>]

\* lines 112-114: one write per row, every cell as (cell or "")
RosterOutput(rows) ==
  IF rows = <<>>
  THEN <<Out("exception handling command", <<<<"list index out of range">>>>)>>
  ELSE [i \in DOMAIN rows |->
          Out("row", [k \in DOMAIN rows[i] |-> Or(rows[i][k], <<>>)])]

----------------------------------------------------------------------------
(* Recipient resolution, lines 158-175 *)

\* lines 158-166 without the test of line 161
TypedNoGuard(l, nr) ==
  LET parts == SplitFirst(l)
  IN IF Len(parts) = 2
     THEN [given |-> TRUE, recipient |-> parts[1], message |-> parts[2]]
     ELSE [given |-> TRUE, recipient |-> nr, message |-> l]

\* lines 158-166: the recipient and message of a chat line, if it gives any
Typed(l, nr) ==
  LET parts == SplitFirst(l)
  IN IF Len(parts) = 2
     THEN [given |-> TRUE, recipient |-> parts[1], message |-> parts[2]]
     ELSE IF nr # None
     THEN [given |-> TRUE, recipient |-> nr, message |-> l]
     ELSE [given |-> FALSE, recipient |-> None, message |-> <<>>]

\* lines 167-172: the lookup of the name, retried with the sticky recipient
Lookup(its, r, nr) ==
  LET j0 == jid_for_name(its, r)
      retry == j0 = None /\ nr # None /\ r # nr
  IN [recipient |-> IF retry THEN nr ELSE r,
      jid |-> IF retry THEN jid_for_name(its, nr) ELSE j0]

Resolve(l, its, nr) ==
  LET typed == Typed(l, nr)
      found == Lookup(its, typed.recipient, nr)
  IN IF ~typed.given
     THEN [outcome |-> "hint", recipient |-> None, message |-> <<>>, jid |-> None]
     ELSE [outcome |-> IF found.jid = None THEN "unknown" ELSE "send",
           recipient |-> found.recipient, message |-> typed.message, jid |-> found.jid]

\* line 165
NoRecipientReport == <<Out("recipient: message", <<>>)>>

\* the report of line 165 in the place of line 174
UnknownAsNoRecipient(r) == NoRecipientReport

\* line 174
UnknownRecipientReport(r) == <<Out("unknown recipient", <<r>>)>>

\* the assignment of line 179 made whether or not the send raised
StickyAfterSendAlways(ok, nr, r) == r

\* line 179 against line 181: the sticky recipient after the awaited send
StickyAfterSend(ok, nr, r) == IF ok THEN r ELSE nr

----------------------------------------------------------------------------
(* The prompt loop *)

Init ==
  /\ pc = "starting"
  /\ items = <<>>
  /\ available = {}
  /\ next_recipient = None
  /\ line = NoLine
  /\ recipient = None
  /\ jid = None
  /\ written = <<>>
  /\ calls = <<>>
  /\ established = FALSE
  /\ exit_status = NoStatus
  /\ buffer = <<>>

\* lines 21-28: the configuration is read; without a usable one, sys.exit(1)
LoadConfig(ok) ==
  /\ pc = "starting"
  /\ pc' = IF ok THEN "connecting" ELSE "config_failed"
  /\ written' = IF ok THEN <<>> ELSE <<Out("Error reading configuration file.", <<>>)>>
  /\ exit_status' = IF ok THEN exit_status ELSE <<"1">>
  /\ calls' = <<>>
  /\ UNCHANGED <<items, available, next_recipient, line, recipient, jid, established, buffer>>

\* line 100 with the loop entered whether or not the session was established
ConnectIgnoringFailure(ok) ==
  /\ pc = "connecting"
  /\ pc' = "loop"
  /\ written' = IF ok THEN <<>> ELSE <<Out("Failed to connect", <<>>)>>
  /\ calls' = <<>>
  /\ established' = ok
  /\ exit_status' = IF ok THEN exit_status ELSE <<"0">>
  /\ UNCHANGED <<items, available, next_recipient, line, recipient, jid, buffer>>

\* line 100: client.connected() establishes the session, or raises (line 186)
Connect(ok) ==
  /\ pc = "connecting"
  /\ pc' = IF ok THEN "loop" ELSE "failed"
  /\ written' = IF ok THEN <<>> ELSE <<Out("Failed to connect", <<>>)>>
  /\ calls' = <<>>
  /\ established' = ok
  /\ exit_status' = IF ok THEN exit_status ELSE <<"0">>
  /\ UNCHANGED <<items, available, next_recipient, line, recipient, jid, buffer>>

\* line 103: cli.run_async() shows the prompt and suspends
Prompt ==
  /\ pc = "loop"
  /\ pc' = "reading"
  /\ line' = NoLine
  /\ written' = <<>>
  /\ calls' = <<>>
  /\ UNCHANGED <<items, available, next_recipient, recipient, jid>>
  /\ UNCHANGED <<established, exit_status, buffer>>

\* line 103: the user types at the prompt without submitting
Type(b) ==
  /\ pc = "reading"
  /\ buffer = <<>>
  /\ buffer' = b
  /\ written' = <<>>
  /\ calls' = <<>>
  /\ UNCHANGED <<pc, items, available, next_recipient, line, recipient, jid>>
  /\ UNCHANGED <<established, exit_status>>

\* lines 103, 106: the user completes the typed input to l and submits it
ReadLine(l) ==
  /\ pc = "reading"
  /\ Len(buffer) <= Len(l) /\ SubSeq(l, 1, Len(buffer)) = buffer
  /\ pc' = "parsing"
  /\ line' = l
  /\ buffer' = <<>>
  /\ written' = <<>>
  /\ calls' = <<>>
  /\ UNCHANGED <<items, available, next_recipient, recipient, jid>>
  /\ UNCHANGED <<established, exit_status>>

\* line 183 without line 184
DisconnectWithoutStop ==
  /\ pc' = "stopped"
  /\ written' = <<Out("Disconnecting", <<>>)>>
  /\ calls' = <<>>
  /\ established' = FALSE
  /\ exit_status' = <<"0">>
  /\ buffer' = <<>>

\* lines 183-184
Disconnect ==
  /\ pc' = "stopped"
  /\ written' = <<Out("Disconnecting", <<>>)>>
  /\ calls' = <<Call("stop", None, <<>>)>>
  /\ established' = FALSE
  /\ exit_status' = <<"0">>
  /\ buffer' = <<>>

\* lines 104-105: KeyboardInterrupt or EOFError out of the line read
ReadInterrupt ==
  /\ pc = "reading"
  /\ Disconnect
  /\ UNCHANGED <<items, available, next_recipient, line, recipient, jid>>

\* lines 156-178: a chat line, up to the awaited send
DispatchChat ==
  /\ pc = "parsing"
  /\ ~StartsWithSlash(line)
  /\ LET res == Resolve(line, items, next_recipient)
     IN CASE res.outcome = "hint" ->
               /\ written' = NoRecipientReport
               /\ calls' = <<>>
               /\ pc' = "loop"
               /\ recipient' = None
          [] res.outcome = "unknown" ->
               /\ written' = UnknownRecipientReport(res.recipient)
               /\ calls' = <<>>
               /\ pc' = "loop"
               /\ recipient' = None
          [] res.outcome = "send" ->
               /\ written' = <<>>
               /\ calls' = <<Call("send_and_wait_for_sent", res.jid, res.message)>>
               /\ pc' = "sending"
               /\ recipient' = res.recipient
  /\ UNCHANGED <<items, available, next_recipient, line, jid>>
  /\ UNCHANGED <<established, exit_status, buffer>>

\* lines 178-179 without the handler of lines 180-181: the exception of the
\* send leaves the loop and is caught at line 185
SendDoneUncaught(ok) ==
  /\ pc = "sending"
  /\ pc' = IF ok THEN "loop" ELSE "failed"
  /\ next_recipient' = StickyAfterSend(ok, next_recipient, recipient)
  /\ written' = IF ok THEN <<>> ELSE <<Out("Failed to connect", <<>>)>>
  /\ calls' = <<>>
  /\ recipient' = None
  /\ line' = NoLine
  /\ established' = (ok /\ established)
  /\ exit_status' = IF ok THEN exit_status ELSE <<"0">>
  /\ UNCHANGED <<items, available, jid, buffer>>

\* lines 178-181: the send completes, or raises
SendDone(ok) ==
  /\ pc = "sending"
  /\ pc' = "loop"
  /\ next_recipient' = StickyAfterSend(ok, next_recipient, recipient)
  /\ written' = IF ok THEN <<>> ELSE <<Out("exception sending message", <<>>)>>
  /\ calls' = <<>>
  /\ recipient' = None
  /\ line' = NoLine
  /\ UNCHANGED <<items, available, jid>>
  /\ UNCHANGED <<established, exit_status, buffer>>

----------------------------------------------------------------------------
(* Commands, lines 107-155 *)

\* line 109: command, *args = line[1:].split(" ")
Command(l) == SplitSpace(Tail(l))[1]

Args(l) == Tail(SplitSpace(Tail(l)))

IsCommand(name) ==
  /\ pc = "parsing"
  /\ StartsWithSlash(line)
  /\ Command(line) = <<name>>

Usage(text) == <<Out("usage", <<<<text>>>>)>>

CommandException(text) == <<Out("exception handling command", <<text>>)>>

\* lines 110-114
CmdRoster ==
  /\ IsCommand("roster")
  /\ written' = RosterOutput(RosterRows(items))
  /\ calls' = <<>>
  /\ pc' = "loop"
  /\ UNCHANGED <<items, available, next_recipient, line, recipient, jid>>
  /\ UNCHANGED <<established, exit_status, buffer>>

\* line 122: roster.items[jid].name = name, jid being the str typed
SetName(its, key, name) ==
  [i \in DOMAIN its |-> IF its[i].jid = key THEN [its[i] EXCEPT !.name = name] ELSE its[i]]

\* lines 115-122
CmdName ==
  /\ IsCommand("name")
  /\ LET args == Args(line)
     IN IF Len(args) < 2
        THEN /\ written' = Usage("/name JID NAME")
             /\ items' = items
        ELSE IF ItemIndex(items, args[1]) = {}
        THEN /\ written' = CommandException(args[1])
             /\ items' = items
        ELSE /\ written' = <<>>
             /\ items' = SetName(items, args[1], args[2])
  /\ calls' = <<>>
  /\ pc' = "loop"
  /\ UNCHANGED <<available, next_recipient, line, recipient, jid>>
  /\ UNCHANGED <<established, exit_status, buffer>>

\* lines 123-130 and 133-140: /add and /del up to the awaited roster call
RosterEdit(usage, op, await) ==
  LET args == Args(line)
  IN IF Len(args) < 1
     THEN /\ written' = Usage(usage)
          /\ calls' = <<>>
          /\ pc' = "loop"
          /\ jid' = None
     ELSE IF JIDfromstrRaises(args[1])
     THEN /\ written' = CommandException(<<"ValueError">>)
          /\ calls' = <<>>
          /\ pc' = "loop"
          /\ jid' = None
     ELSE /\ written' = <<>>
          /\ calls' = <<Call(op, JIDfromstr(args[1]), <<>>)>>
          /\ pc' = await
          /\ jid' = JIDfromstr(args[1])

\* lines 123-130
CmdAdd ==
  /\ IsCommand("add")
  /\ RosterEdit("/add JID", "set_entry", "adding")
  /\ UNCHANGED <<items, available, next_recipient, line, recipient>>
  /\ UNCHANGED <<established, exit_status, buffer>>

\* lines 133-140
CmdDel ==
  /\ IsCommand("del")
  /\ RosterEdit("/del JID", "remove_entry", "deleting")
  /\ UNCHANGED <<items, available, next_recipient, line, recipient>>
  /\ UNCHANGED <<established, exit_status, buffer>>

\* lines 130-132: set_entry returns, or raises (line 155).  The server's roster
\* push may be handled before the reply or after it.
AddDone(ok, pushed) ==
  /\ pc = "adding"
  /\ ok => jid \in JIDs
  /\ pushed => ok
  /\ pc' = "loop"
  /\ items' = IF pushed /\ ItemIndex(items, jid) = {}
              THEN Upsert(items, jid, None, <<"none">>) ELSE items
  /\ written' = IF ok THEN <<>> ELSE CommandException(<<"XMPPError">>)
  /\ calls' = IF ok THEN <<Call("subscribe", jid, <<>>), Call("approve", jid, <<>>)>>
              ELSE <<>>
  /\ jid' = None
  /\ line' = NoLine
  /\ UNCHANGED <<available, next_recipient, recipient>>
  /\ UNCHANGED <<established, exit_status, buffer>>

\* line 140: remove_entry returns, or raises (line 155)
DelDone(ok, pushed) ==
  /\ pc = "deleting"
  /\ pushed => ok
  /\ pc' = "loop"
  /\ items' = IF pushed THEN Remove(items, jid) ELSE items
  /\ written' = IF ok THEN <<>> ELSE CommandException(<<"XMPPError">>)
  /\ calls' = <<>>
  /\ jid' = None
  /\ line' = NoLine
  /\ UNCHANGED <<available, next_recipient, recipient>>
  /\ UNCHANGED <<established, exit_status, buffer>>

\* lines 141-142, 183-184
CmdQuit ==
  /\ IsCommand("quit")
  /\ Disconnect
  /\ UNCHANGED <<items, available, next_recipient, line, recipient, jid>>

\* lines 143-151
CmdHelp ==
  /\ IsCommand("help")
  /\ written' = <<Out("help", <<>>)>>
  /\ calls' = <<>>
  /\ pc' = "loop"
  /\ UNCHANGED <<items, available, next_recipient, line, recipient, jid>>
  /\ UNCHANGED <<established, exit_status, buffer>>

\* lines 152-153
CmdUnrecognised ==
  /\ pc = "parsing"
  /\ StartsWithSlash(line)
  /\ Command(line) \notin {<<"roster">>, <<"name">>, <<"add">>, <<"del">>, <<"quit">>, <<"help">>}
  /\ written' = <<Out("unrecognised command", <<>>)>>
  /\ calls' = <<>>
  /\ pc' = "loop"
  /\ UNCHANGED <<items, available, next_recipient, line, recipient, jid>>
  /\ UNCHANGED <<established, exit_status, buffer>>

----------------------------------------------------------------------------
(* Handlers the asyncio loop runs while xmpp_client is suspended *)

Suspended == pc \in {"reading", "sending", "adding", "deleting"}

\* bodies of an incoming message: the values of msg.body
MsgBodies == {<< <<"a">> >>, << <<"a">>, <<"a">> >>}

\* the roster service stores an item the server pushes
RosterPush(j, n, s) ==
  /\ Suspended
  /\ items' = Upsert(items, j, n, s)
  /\ written' = <<>>
  /\ calls' = <<>>
  /\ line' = NoLine
  /\ UNCHANGED <<pc, available, next_recipient, recipient, jid>>
  /\ UNCHANGED <<established, exit_status, buffer>>

\* the roster service drops an item the server reports removed
RosterRemove(j) ==
  /\ Suspended
  /\ ItemIndex(items, j) # {}
  /\ items' = Remove(items, j)
  /\ written' = <<>>
  /\ calls' = <<>>
  /\ line' = NoLine
  /\ UNCHANGED <<pc, available, next_recipient, recipient, jid>>
  /\ UNCHANGED <<established, exit_status, buffer>>

\* lines 87-89
peer_available(j) ==
  /\ Suspended
  /\ j \notin available
  /\ available' = available \cup {j}
  /\ written' = <<Out("is now online", <<Str(name_for_jid(items, j))>>)>>
  /\ calls' = <<>>
  /\ line' = NoLine
  /\ UNCHANGED <<pc, items, next_recipient, recipient, jid>>
  /\ UNCHANGED <<established, exit_status, buffer>>

\* lines 91-93
peer_unavailable(j) ==
  /\ Suspended
  /\ j \in available
  /\ available' = available \ {j}
  /\ written' = <<Out("is now offline", <<Str(name_for_jid(items, j))>>)>>
  /\ calls' = <<>>
  /\ line' = NoLine
  /\ UNCHANGED <<pc, items, next_recipient, recipient, jid>>
  /\ UNCHANGED <<established, exit_status, buffer>>

\* lines 95-97 with the text typed at the prompt thrown away by the write
message_receivedOverPrompt(from, body) ==
  /\ Suspended
  /\ written' = <<Out("message", <<Str(name_for_jid(items, from)), Join(body, <<" ">>)>>)>>
  /\ calls' = <<>>
  /\ line' = NoLine
  /\ buffer' = <<>>
  /\ UNCHANGED <<pc, items, available, next_recipient, recipient, jid>>
  /\ UNCHANGED <<established, exit_status>>

\* lines 95-97
message_received(from, body) ==
  /\ Suspended
  /\ written' = <<Out("message", <<Str(name_for_jid(items, from)), Join(body, <<" ">>)>>)>>
  /\ calls' = <<>>
  /\ line' = NoLine
  /\ UNCHANGED <<pc, items, available, next_recipient, recipient, jid>>
  /\ UNCHANGED <<established, exit_status, buffer>>

\* the transport loses its session for good; no handler of xc.py is attached to it
ConnectionLost ==
  /\ Suspended
  /\ established
  /\ established' = FALSE
  /\ written' = <<>>
  /\ calls' = <<>>
  /\ line' = NoLine
  /\ UNCHANGED <<pc, items, available, next_recipient, recipient, jid, exit_status, buffer>>

----------------------------------------------------------------------------

Next ==
  \/ \E ok \in BOOLEAN : LoadConfig(ok)
  \/ \E ok \in BOOLEAN : Connect(ok)
  \/ Prompt
  \/ \E b \in PartialInputs : Type(b)
  \/ \E l \in Lines : ReadLine(l)
  \/ ReadInterrupt
  \/ DispatchChat
  \/ \E ok \in BOOLEAN : SendDone(ok)
  \/ CmdRoster
  \/ CmdName
  \/ CmdAdd
  \/ CmdDel
  \/ \E ok \in BOOLEAN, pushed \in BOOLEAN : AddDone(ok, pushed)
  \/ \E ok \in BOOLEAN, pushed \in BOOLEAN : DelDone(ok, pushed)
  \/ CmdQuit
  \/ CmdHelp
  \/ CmdUnrecognised
  \/ \E j \in JIDs, n \in Names \cup {None}, s \in Subscriptions : RosterPush(j, n, s)
  \/ \E j \in JIDs : RosterRemove(j)
  \/ \E j \in Peers : peer_available(j)
  \/ \E j \in Peers : peer_unavailable(j)
  \/ \E j \in JIDs, body \in MsgBodies : message_received(j, body)
  \/ ConnectionLost

Spec == Init /\ [][Next]_vars

----------------------------------------------------------------------------
(* Vocabulary of the properties *)

\* the positions at which ": " occurs in l
SepAt(l) == {k \in 1..(Len(l) - 1) : l[k] = ":" /\ l[k + 1] = " "}

HasSeparator(l) == SepAt(l) # {}

FirstSep(l) == CHOOSE k \in SepAt(l) : \A j \in SepAt(l) : k <= j

\* NAME and MESSAGE of a line NAME: MESSAGE
TypedName(l) == SubSeq(l, 1, FirstSep(l) - 1)

TypedMessage(l) == SubSeq(l, FirstSep(l) + 2, Len(l))

\* the positions of the contacts whose display name is n
Named(its, n) == {i \in DOMAIN its : its[i].name = n}

\* a chat line has been read and is about to be resolved
ChatPending == pc = "parsing" /\ line # NoLine /\ (Len(line) = 0 \/ line[1] # "/")

\* the state right after the dispatch of `line`
Dispatched == line # NoLine /\ pc # "parsing"

SendFailureReport == <<Out("exception sending message", <<>>)>>

IsSendTo(c, addresses, body) ==
  c.op = "send_and_wait_for_sent" /\ c.to \in addresses /\ c.body = body

----------------------------------------------------------------------------
\* C1: the sticky recipient changes only in the step in which the awaited send
\* returns without raising, and then to the recipient of that send; a send
\* that raises is reported, leaves the sticky recipient as it was and returns
\* the loop to its top.
C1_StickyOnlyAfterSuccessfulSend ==
  [][ /\ next_recipient' # next_recipient =>
           /\ pc = "sending" /\ pc' = "loop"
           /\ written' = <<>>
           /\ next_recipient' = recipient
      /\ (pc = "sending" /\ pc' # "sending" /\ written' # <<>>) =>
           /\ written' = SendFailureReport
           /\ next_recipient' = next_recipient
           /\ pc' = "loop" ]_vars

C1_Witness ==
  /\ pc = "loop"
  /\ written = SendFailureReport
  /\ next_recipient # None

\* C2: a chat line NAME: MESSAGE, split at the first ": ", whose NAME is the
\* display name of some contact, is handed to the transport addressed to a
\* contact of that name with body exactly MESSAGE; the recipient held during
\* the send is NAME, and a send that returns makes it the sticky recipient.
C2_NamedLineIsSent ==
  [][ /\ (ChatPending /\ HasSeparator(line) /\ Named(items, TypedName(line)) # {}) =>
           /\ pc' = "sending"
           /\ Len(calls') = 1
           /\ IsSendTo(calls'[1],
                       {items[i].jid : i \in Named(items, TypedName(line))},
                       TypedMessage(line))
           /\ recipient' = TypedName(line)
      /\ pc = "sending" =>
           IF pc' = "sending" THEN recipient' = recipient
           ELSE written' = <<>> => next_recipient' = recipient ]_vars

C2_Witness ==
  /\ pc = "sending"
  /\ line # NoLine
  /\ HasSeparator(line)
  /\ HasSeparator(TypedMessage(line))
  /\ Len(calls) = 1
  /\ calls[1].body = TypedMessage(line)

\* C3 as claimed: with a sticky recipient A, a chat line without ": " is sent
\* to A's contact with the whole line as body, in every reachable state.
C3_Original ==
  [][ (ChatPending /\ ~HasSeparator(line) /\ next_recipient # None) =>
           /\ pc' = "sending"
           /\ Len(calls') = 1
           /\ IsSendTo(calls'[1],
                       {items[i].jid : i \in Named(items, next_recipient)}, line) ]_vars

\* C3 as amended: with a sticky recipient A that is still the display name of
\* a contact, a chat line without ": " is sent to the first contact named A
\* with the whole line as body.
C3_StickyLineIsSent ==
  [][ (/\ ChatPending /\ ~HasSeparator(line)
       /\ next_recipient # None /\ Named(items, next_recipient) # {}) =>
           /\ pc' = "sending"
           /\ calls' = <<Call("send_and_wait_for_sent",
                              items[Min(Named(items, next_recipient))].jid, line)>>
           /\ recipient' = next_recipient ]_vars

C3_Witness ==
  /\ pc = "sending"
  /\ line # NoLine
  /\ Len(line) > 1
  /\ ~HasSeparator(line)
  /\ Len(calls) = 1
  /\ calls[1].body = line

\* C4 as claimed: an empty input line writes nothing, sends nothing and
\* changes neither the roster nor the sticky recipient.
C4_EmptyLineIsNoOp ==
  [][ (pc = "parsing" /\ line = <<>>) =>
           /\ written' = <<>>
           /\ calls' = <<>>
           /\ items' = items
           /\ next_recipient' = next_recipient ]_vars

\* C5: a chat line NAME: MESSAGE whose NAME no contact carries, read while no
\* sticky recipient is set, writes "unknown recipient: NAME", sends nothing,
\* leaves the sticky recipient unset and returns the loop to its top.
C5_UnknownRecipient ==
  [][ (/\ ChatPending /\ HasSeparator(line)
       /\ Named(items, TypedName(line)) = {} /\ next_recipient = None) =>
           /\ written' = <<Out("unknown recipient", <<TypedName(line)>>)>>
           /\ calls' = <<>>
           /\ next_recipient' = None
           /\ items' = items
           /\ pc' = "loop" ]_vars

C5_Witness ==
  /\ pc = "loop"
  /\ line # NoLine
  /\ ~StartsWithSlash(line)
  /\ HasSeparator(line)
  /\ next_recipient = None
  /\ items # <<>>
  /\ written = <<Out("unknown recipient", <<TypedName(line)>>)>>

\* C6: a chat line without ": ", read while no sticky recipient is set, writes
\* the hint, sends nothing and changes no state.
C6_NoRecipient ==
  [][ (ChatPending /\ ~HasSeparator(line) /\ next_recipient = None) =>
           /\ written' = <<Out("recipient: message", <<>>)>>
           /\ calls' = <<>>
           /\ pc' = "loop"
           /\ UNCHANGED <<items, available, next_recipient>> ]_vars

C6_Witness ==
  /\ pc = "loop"
  /\ line # NoLine
  /\ Len(line) > 0
  /\ ~StartsWithSlash(line)
  /\ ~HasSeparator(line)
  /\ next_recipient = None
  /\ \E i \in DOMAIN items : items[i].name = None
  /\ written = <<Out("recipient: message", <<>>)>>

\* C7 as claimed: once the contact the sticky recipient refers to has been
\* removed (here: every contact has), a chat line without ": " gets the
\* outcome of an unset default (the hint) and is not sent.
C7_Original ==
  [][ (/\ ChatPending /\ ~HasSeparator(line)
       /\ next_recipient # None /\ items = <<>>) =>
           /\ written' = <<Out("recipient: message", <<>>)>>
           /\ calls' = <<>> ]_vars

\* C7 as amended: once no contact carries the sticky name any more, a chat line
\* without ": " writes "unknown recipient: " and the sticky name, is not sent,
\* and the sticky recipient keeps its stale value.
C7_StaleStickyIsUnknown ==
  [][ (/\ ChatPending /\ ~HasSeparator(line)
       /\ next_recipient # None /\ Named(items, next_recipient) = {}) =>
           /\ written' = <<Out("unknown recipient", <<next_recipient>>)>>
           /\ calls' = <<>>
           /\ next_recipient' = next_recipient
           /\ pc' = "loop" ]_vars

C7_Witness ==
  /\ pc = "loop"
  /\ line # NoLine
  /\ ~StartsWithSlash(line)
  /\ ~HasSeparator(line)
  /\ next_recipient # None
  /\ Named(items, next_recipient) = {}
  /\ written = <<Out("unknown recipient", <<next_recipient>>)>>

\* C8: whatever the roster holds, no row that /roster writes carries the local
\* user's own address.
C8_RosterRowsOmitLocalAddress ==
  (Dispatched /\ StartsWithSlash(line) /\ Command(line) = <<"roster">>) =>
     \A i \in DOMAIN written :
        written[i].kind = "row" => written[i].args[2] # JIDstr(my_jid)

C8_Witness ==
  /\ Dispatched
  /\ StartsWithSlash(line)
  /\ Command(line) = <<"roster">>
  /\ ItemIndex(items, my_jid) # {}
  /\ Len(items) = 2
  /\ Len(written) = 1
  /\ written[1].kind = "row"

\* C9 as claimed: no chat line makes the console send a message to the local
\* user's own address.
C9_NeverSendsToLocalAddress ==
  \A i \in DOMAIN calls :
     calls[i].op = "send_and_wait_for_sent" => calls[i].to # my_jid

\* C10 as claimed: /roster all writes a row for every contact, and /roster
\* without all writes no row for a contact that is offline.
C10_RosterFilter ==
  (Dispatched /\ StartsWithSlash(line) /\ Command(line) = <<"roster">>) =>
     LET listed == {written[i].args[2] : i \in {k \in DOMAIN written : written[k].kind = "row"}}
         contacts == {items[i].jid : i \in DOMAIN items} \ {my_jid}
     IN IF \E k \in DOMAIN Args(line) : Args(line)[k] = <<"all">>
        THEN \A j \in contacts : JIDstr(j) \in listed
        ELSE \A j \in contacts \ available : JIDstr(j) \notin listed


----------------------------------------------------------------------------
\* the contacts of the roster whose address is the text typed as JID
Addressed(its, text) == ItemIndex(its, JIDfromstr(text))

\* C11 as claimed: after /name JID NAME for a JID whose contact is in the
\* roster, that contact's display name is NAME, so that the rows of /roster
\* show NAME for JID and a line NAME: MESSAGE finds a contact named NAME.
C11_NameSetsDisplayName ==
  [][ (/\ IsCommand("name")
       /\ Len(Args(line)) = 2
       /\ Args(line)[2] # <<>>
       /\ Addressed(items, Args(line)[1]) # {}) =>
           /\ \A i \in Addressed(items', Args(line)[1]) : items'[i].name = Args(line)[2]
           /\ \E k \in DOMAIN RosterRows(items') :
                 /\ RosterRows(items')[k][1] = Args(line)[2]
                 /\ RosterRows(items')[k][2] = Args(line)[1]
           /\ jid_for_name(items', Args(line)[2]) # None ]_vars


----------------------------------------------------------------------------
\* the number of arguments the help text (lines 146-149) gives a command
Required(name) == IF name = "name" THEN 2 ELSE 1

UsageOf(name) ==
  IF name = "name" THEN Usage("/name JID NAME")
  ELSE IF name = "add" THEN Usage("/add JID") ELSE Usage("/del JID")

\* the line gives fewer arguments than required, or nothing but a trailing space
LacksArgument(l, name) == Len(Args(l)) < Required(name) \/ Args(l) = << <<>> >>

\* C12 as claimed: /name, /add and /del on a line that lacks a required
\* argument, the command followed by one trailing space included, write the
\* usage message of the command, call no roster operation of the transport
\* and leave the roster and the sticky recipient as they were.
C12_MissingArgumentPrintsUsage ==
  [][ \A name \in {"name", "add", "del"} :
        (IsCommand(name) /\ LacksArgument(line, name)) =>
           /\ written' = UsageOf(name)
           /\ calls' = <<>>
           /\ items' = items
           /\ next_recipient' = next_recipient ]_vars


----------------------------------------------------------------------------
StopCall == Call("stop", None, <<>>)

\* C13: the loop is left for good only by /quit or by an interrupt or
\* end-of-input out of the line read; the step that leaves it writes
\* "Disconnecting" and calls client.stop(), and after it nothing is read,
\* dispatched or written any more.
C13_DisconnectingIsTerminal ==
  [][ /\ pc = "stopped" => UNCHANGED vars
      /\ (IsCommand("quit") \/ (pc = "reading" /\ pc' \notin {"reading", "parsing"})) =>
            pc' = "stopped"
      /\ (pc # "stopped" /\ pc' = "stopped") =>
            /\ IsCommand("quit") \/ pc = "reading"
            /\ written' = <<Out("Disconnecting", <<>>)>>
            /\ calls' = <<StopCall>>
            /\ UNCHANGED <<items, next_recipient, line>> ]_vars

\* /quit has been dispatched and the transport was asked to stop
C13_Witness ==
  /\ pc = "stopped"
  /\ line # NoLine /\ StartsWithSlash(line) /\ Command(line) = <<"quit">>
  /\ calls = <<StopCall>>


----------------------------------------------------------------------------
\* the positions of xmpp_client before the loop of line 101
BeforeLoop == {"starting", "config_failed", "connecting", "failed"}

ConnectFailureReport == <<Out("Failed to connect", <<>>)>>

----------------------------------------------------------------------------
\* C15 as claimed: the process ends with status 0 after /quit, end-of-input
\* or an interrupt, and with a status other than 0 when the configuration
\* cannot be read and when the connection cannot be established.
C15_ExitStatus ==
  /\ pc = "stopped" => exit_status = <<"0">>
  /\ pc \in {"config_failed", "failed"} => exit_status \notin {NoStatus, <<"0">>}


----------------------------------------------------------------------------
\* the steps that the person at the terminal takes
UserInput ==
  \/ \E l \in Lines : ReadLine(l)
  \/ \E b \in PartialInputs : Type(b)
  \/ ReadInterrupt

\* C16 as claimed: when the session is lost while the loop is suspended in
\* the line read, the program can leave the read by a step of its own, without
\* waiting for the person at the terminal to submit a line or to interrupt.
C16_LossEndsTheRead ==
  (pc = "reading" /\ ~established) =>
     ENABLED (Next /\ ~UserInput /\ pc' # "reading")


----------------------------------------------------------------------------
\* a line NAME: MESSAGE whose NAME no contact carries, read while a sticky
\* recipient other than NAME is set
RetryPending ==
  /\ ChatPending /\ HasSeparator(line)
  /\ Named(items, TypedName(line)) = {}
  /\ next_recipient # None
  /\ TypedName(line) # next_recipient

\* C17 as claimed: such a line is resolved again with the sticky recipient as
\* the name and MESSAGE is sent to a contact of that name; when no contact
\* carries the sticky name either, "unknown recipient" is written for the
\* NAME that was typed, nothing is sent and the sticky recipient stays.
C17_RetryWithSticky ==
  [][ RetryPending =>
        IF Named(items, next_recipient) # {}
        THEN /\ pc' = "sending"
             /\ Len(calls') = 1
             /\ IsSendTo(calls'[1],
                         {items[i].jid : i \in Named(items, next_recipient)},
                         TypedMessage(line))
        ELSE /\ written' = <<Out("unknown recipient", <<TypedName(line)>>)>>
             /\ calls' = <<>>
             /\ next_recipient' = next_recipient
             /\ pc' = "loop" ]_vars


----------------------------------------------------------------------------
\* C18 as claimed: /roster writes one row for every contact it shows, none
\* when it shows none, and no error message, whatever the roster holds.
C18_RosterNeverFails ==
  [][ IsCommand("roster") =>
        /\ Len(written') = Len(RosterRows(items))
        /\ \A k \in DOMAIN written' : written'[k].kind = "row"
        /\ pc' = "loop" ]_vars


----------------------------------------------------------------------------
\* the positions of xmpp_client inside the loop of line 101
InLoop == {"loop", "reading", "parsing", "sending", "adding", "deleting"}

\* the messages of lines 118, 127, 137, 153, 155, 165, 174 and 181
ErrorKinds ==
  {"usage", "unrecognised command", "exception handling command",
   "recipient: message", "unknown recipient", "exception sending message"}

Reports(w) == \E k \in DOMAIN w : w[k].kind \in ErrorKinds

\* C19: a step of the loop that reports an error writes that one message and
\* nothing else, leaves the sticky recipient as it was and returns to the top
\* of the loop, from where the next step shows the prompt again; the loop is
\* left only by /quit and by an interrupt or end-of-input in the line read.
C19_ErrorsStayInLoop ==
  [][ /\ (pc \in InLoop /\ Reports(written')) =>
            /\ Len(written') = 1
            /\ pc' = "loop"
            /\ next_recipient' = next_recipient
      /\ (pc \in InLoop /\ pc' \notin InLoop) =>
            /\ IsCommand("quit") \/ pc = "reading"
            /\ pc' = "stopped"
            /\ ~Reports(written')
      /\ pc = "loop" => (pc' = "reading" /\ written' = <<>>) ]_vars

\* a roster call that raised was reported while a sticky recipient is set
C19_Witness ==
  /\ pc = "loop"
  /\ written = CommandException(<<"XMPPError">>)
  /\ next_recipient # None


----------------------------------------------------------------------------
\* the writes of lines 88, 92 and 96
NotificationKinds == {"message", "is now online", "is now offline"}

Notifies(w) == \E k \in DOMAIN w : w[k].kind \in NotificationKinds

====
